---------------------------- MODULE Spec2Model ----------------------------
(***************************************************************************)
(* Model of the pySamsung remote-control client (src/samsung/base.py) and  *)
(* of its two receivers (src/samsung/listener.py).                         *)
(*                                                                         *)
(* Strings are sequences of integers.  The interpreter is part of the      *)
(* state (the variable python): base.py is written for Python 2, where str *)
(* is a byte string and chr(n) raises ValueError for n outside 0..255;     *)
(* setup.py declares Python 3, where chr(256) is a character and           *)
(* base64.b64encode returns bytes, which sstv_string cannot append to str. *)
(* listener.py is Python 3 only (its import of typing, its annotations,    *)
(* its super() without arguments): a receiver exists under Python 3 alone. *)
(* A Python exception is a record [type, msg, arg]; a call either returns  *)
(* or raises.  The device and the network are the environment: what a raw  *)
(* socket call yields is drawn from small sets.                            *)
(***************************************************************************)
EXTENDS Integers, Sequences, FiniteSets, TLC

\* ------------------------------------------------------------------ bounds
\* Top-level calls the caller makes on one client object.
MaxCalls == 3
\* A raw send accepts the whole buffer or up to MaxShort bytes less.
MaxShort == 2
\* receives of one next() after its handshake
MaxPulls == 3
\* pairs registered with one ThreadReceiver
MaxListeners == 2
\* frames the device sends to one ThreadReceiver after the handshake
MaxFrames == 2
\* length of the short byte strings handed to the codec
MaxLen == 3

\* ------------------------------------------------------- program constants
\* self._auth_tries
auth_tries == 3
\* the two bytes of a length prefix are base-256 digits
Base == 256
\* length > 256 * 256 is refused by sstv_string
MaxLength == 65536

\* ------------------------------------------------------------ byte strings
\* ".iapp.samsung"
IAPP_SAMSUNG == <<46, 105, 97, 112, 112, 46, 115, 97, 109, 115, 117, 110, 103>>

\* ResponsePayload
AUTH_OK == <<100, 0, 1, 0>>
AUTH_ACCESS_DENIED == <<100, 0, 0, 0>>
AUTH_NEED_CONFIRM == <<10, 0, 2, 0, 0, 0>>
AUTH_TIMEOUT == <<100, 0>>
KEY_OK == <<0, 0, 0, 0>>

\* LOCAL_MAC: ":".join of the 6 byte pairs of "%012x" % uuid.getnode(),
\* here "02:00:00:00:00:0a"
LOCAL_MAC ==
    <<48, 50, 58, 48, 48, 58, 48, 48, 58, 48, 48, 58, 48, 48, 58, 48, 97>>
\* self._sock.getsockname()[0], here "1.2"
socket_name == <<49, 46, 50>>
\* self.app_label, here "tv"
app_label == <<116, 118>>

\* key codes and texts the caller sends: "KEY_1", "KEY_UP"; "a", "hi!"
KEY_1 == <<75, 69, 89, 95, 49>>
KEY_UP == <<75, 69, 89, 95, 85, 80>>
Keys == {KEY_1, KEY_UP}
Texts == {<<97>>, <<104, 105, 33>>}

\* ------------------------------------------------------------- exceptions
NoMessage == [type |-> -1, sender |-> <<>>, payload |-> <<>>]
Exc(t, m) == [type |-> t, msg |-> m, arg |-> NoMessage]
ExcArg(t, m, a) == [type |-> t, msg |-> m, arg |-> a]
NoExc == Exc("", "")

\* ------------------------------------------------------------ module state
VARIABLES
    python,   \* the major version of the interpreter that runs the code
    _logger   \* base._logger is not None: set_logging(True) was called

module_vars == <<python, _logger>>

\* the interpreters: the one base.py is written for, the one setup.py names
Pythons == {2, 3}

\* ------------------------------------------------------------------ codec
\* sstv_string: chr(length % 256) + chr(length // 256) + string, where
\* chr of Python 2 raises for a length of exactly 256 * 256, which the
\* guard lets by; chr of Python 3 returns the character 256
sstv_string(string) ==
    LET length == Len(string)
    IN  IF length > MaxLength
        THEN [exc |-> Exc("ValueError", "String too long"), value |-> <<>>]
        ELSE IF python = 2 /\ length \div Base >= Base
        THEN [exc |-> Exc("ValueError", "chr() arg not in range(256)"),
              value |-> <<>>]
        ELSE [exc |-> NoExc,
              value |-> <<length % Base, length \div Base>> \o string]

\* one character of the base64 alphabet, as its ASCII code
b64char(n) ==
    IF n < 26 THEN 65 + n
    ELSE IF n < 52 THEN 97 + (n - 26)
    ELSE IF n < 62 THEN 48 + (n - 52)
    ELSE IF n = 62 THEN 43 ELSE 47

\* base64.b64encode
RECURSIVE b64encode(_)
b64encode(s) ==
    IF Len(s) = 0 THEN <<>>
    ELSE IF Len(s) = 1
    THEN <<b64char(s[1] \div 4), b64char((s[1] % 4) * 16), 61, 61>>
    ELSE IF Len(s) = 2
    THEN <<b64char(s[1] \div 4),
           b64char((s[1] % 4) * 16 + s[2] \div 16),
           b64char((s[2] % 16) * 4), 61>>
    ELSE <<b64char(s[1] \div 4),
           b64char((s[1] % 4) * 16 + s[2] \div 16),
           b64char((s[2] % 16) * 4 + s[3] \div 64),
           b64char(s[3] % 64)>> \o b64encode(SubSeq(s, 4, Len(s)))

\* sstv_base64: sstv_string(base64.b64encode(string.encode("ASCII"))).
\* Under Python 3 b64encode returns bytes: sstv_string takes their length
\* and then fails to append them to chr(...) + chr(...)
sstv_base64(string) ==
    IF \E k \in 1..Len(string) : string[k] > 127
    THEN [exc |-> Exc("UnicodeError", "ordinal not in range(128)"),
          value |-> <<>>]
    ELSE IF python = 3
    THEN IF 4 * ((Len(string) + 2) \div 3) > MaxLength
         THEN [exc |-> Exc("ValueError", "String too long"), value |-> <<>>]
         ELSE [exc |-> Exc("TypeError",
                   "can only concatenate str (not \"bytes\") to str"),
               value |-> <<>>]
    ELSE sstv_string(b64encode(string))

\* data[a:b] of Python, 0-based and clipped to the string
Slice(data, a, b) ==
    SubSeq(data, a + 1, IF b < Len(data) THEN b ELSE Len(data))

\* mutant: the length is read most significant byte first
parse_sstv_string_big_endian(data) ==
    IF Len(data) < 2
    THEN [exc |-> Exc("IndexError", "string index out of range"),
          value |-> <<>>, rest |-> <<>>]
    ELSE LET length == data[1] * Base + data[2]
         IN  IF Len(data) < length + 2
             THEN [exc |-> Exc("ValueError", "missing bytes"),
                   value |-> <<>>, rest |-> <<>>]
             ELSE [exc |-> NoExc,
                   value |-> Slice(data, 2, length + 2),
                   rest |-> Slice(data, length + 2, Len(data))]

\* parse_sstv_string: the parsed string and the remaining data
parse_sstv_string(data) ==
    IF Len(data) < 2
    THEN [exc |-> Exc("IndexError", "string index out of range"),
          value |-> <<>>, rest |-> <<>>]
    ELSE LET length == data[1] + data[2] * Base
         IN  IF Len(data) < length + 2
             THEN [exc |-> Exc("ValueError", "missing bytes"),
                   value |-> <<>>, rest |-> <<>>]
             ELSE [exc |-> NoExc,
                   value |-> Slice(data, 2, length + 2),
                   rest |-> Slice(data, length + 2, Len(data))]

\* Message(type_, payload, sender)
Message(type_, payload, sender) ==
    [type |-> type_, sender |-> sender, payload |-> payload]

\* Message.parse
Message_parse(message) ==
    IF Len(message) = 0
    THEN [exc |-> Exc("IndexError", "string index out of range"),
          msg |-> NoMessage]
    ELSE LET type_ == message[1]
             first == parse_sstv_string(Slice(message, 1, Len(message)))
             second == parse_sstv_string(first.rest)
         IN  IF first.exc # NoExc THEN [exc |-> first.exc, msg |-> NoMessage]
             ELSE IF second.exc # NoExc
             THEN [exc |-> second.exc, msg |-> NoMessage]
             ELSE IF Len(second.rest) # 0
             THEN [exc |-> Exc("ValueError", "Parser error"),
                   msg |-> NoMessage]
             ELSE [exc |-> NoExc,
                   msg |-> Message(type_, second.value, first.value)]

\* what a Message is compared with: a Message, a str, or another object
Other(tag, msg, str) == [tag |-> tag, msg |-> msg, str |-> str]

\* mutant: the sender is compared too
Message___eq___with_sender(self, other) ==
    IF other.tag = "str"
    THEN LET parsed == Message_parse(other.str)
         IN  IF parsed.exc # NoExc THEN [exc |-> parsed.exc, ret |-> "None"]
             ELSE [exc |-> NoExc,
                   ret |-> IF self = parsed.msg THEN "True" ELSE "False"]
    ELSE IF other.tag = "Message"
    THEN [exc |-> NoExc,
          ret |-> IF self = other.msg THEN "True" ELSE "False"]
    ELSE [exc |-> NoExc, ret |-> "NotImplemented"]

\* Message.__eq__: a str is parsed first; another object is not compared
Message___eq__(self, other) ==
    IF other.tag = "str"
    THEN LET parsed == Message_parse(other.str)
         IN  IF parsed.exc # NoExc THEN [exc |-> parsed.exc, ret |-> "None"]
             ELSE [exc |-> NoExc,
                   ret |-> IF self.type = parsed.msg.type
                              /\ self.payload = parsed.msg.payload
                           THEN "True" ELSE "False"]
    ELSE IF other.tag = "Message"
    THEN [exc |-> NoExc,
          ret |-> IF self.type = other.msg.type
                     /\ self.payload = other.msg.payload
                  THEN "True" ELSE "False"]
    ELSE [exc |-> NoExc, ret |-> "NotImplemented"]

\* Message.__ne__: not self.__eq__(other); NotImplemented is true
Message___ne__(self, other) ==
    LET eq == Message___eq__(self, other)
    IN  IF eq.exc # NoExc THEN eq
        ELSE [exc |-> NoExc,
              ret |-> IF eq.ret = "False" THEN "True" ELSE "False"]

\* self == other: when __eq__ returns NotImplemented the other operand,
\* which is no Message, is asked, and then identity decides
Message_equals(self, other) ==
    LET eq == Message___eq__(self, other)
    IN  IF eq.exc = NoExc /\ eq.ret = "NotImplemented"
        THEN [exc |-> NoExc, ret |-> "False"]
        ELSE eq

\* mutant: the payload is written before the sender
_build_message_payload_first(label, mode, payload) ==
    LET sender == sstv_string(label \o IAPP_SAMSUNG)
        inner == sstv_string(payload)
    IN  IF sender.exc # NoExc THEN [exc |-> sender.exc, value |-> <<>>]
        ELSE IF inner.exc # NoExc THEN [exc |-> inner.exc, value |-> <<>>]
        ELSE [exc |-> NoExc,
              value |-> <<mode>> \o inner.value \o sender.value]

\* SmartTV._build_message of a client whose app_label is label:
\* "%s%s%s" % (mode, sstv_string(self.app_label + ".iapp.samsung"),
\* sstv_string(payload)), or the exception of the first sstv_string to fail
_build_message(label, mode, payload) ==
    LET sender == sstv_string(label \o IAPP_SAMSUNG)
        inner == sstv_string(payload)
    IN  IF sender.exc # NoExc THEN [exc |-> sender.exc, value |-> <<>>]
        ELSE IF inner.exc # NoExc THEN [exc |-> inner.exc, value |-> <<>>]
        ELSE [exc |-> NoExc,
              value |-> <<mode>> \o sender.value \o inner.value]

\* SmartTV._build_message of the client of the model
build_message(mode, payload) == _build_message(app_label, mode, payload)

\* send_key: self._build_message("\x00", "\x00\x00\x00%s" %
\* sstv_base64(key)), or the exception of the first conversion to fail
key_message(key) ==
    LET encoded == sstv_base64(key)
    IN  IF encoded.exc # NoExc THEN [exc |-> encoded.exc, value |-> <<>>]
        ELSE build_message(0, <<0, 0, 0>> \o encoded.value)

\* send_text: self._build_message("\x01", "\x01\x00%s" % sstv_base64(text))
text_message(text) ==
    LET encoded == sstv_base64(text)
    IN  IF encoded.exc # NoExc THEN [exc |-> encoded.exc, value |-> <<>>]
        ELSE build_message(1, <<1, 0>> \o encoded.value)

\* _authenticate: auth_content and auth of a client whose app_label is
\* label on a socket whose local address is name, or the exception of the
\* first conversion to fail
_authenticate_auth(label, name) ==
    LET ip == sstv_base64(name)
        mac == sstv_base64(LOCAL_MAC)
        app == sstv_base64(label)
        auth_content == <<100, 0>> \o ip.value \o mac.value \o app.value
        sender == sstv_string(label \o IAPP_SAMSUNG)
        inner == sstv_string(auth_content)
        failed == IF ip.exc # NoExc THEN ip.exc
                  ELSE IF mac.exc # NoExc THEN mac.exc
                  ELSE IF app.exc # NoExc THEN app.exc
                  ELSE IF sender.exc # NoExc THEN sender.exc
                  ELSE inner.exc
    IN  IF failed # NoExc
        THEN [exc |-> failed, auth_content |-> <<>>, value |-> <<>>]
        ELSE [exc |-> NoExc, auth_content |-> auth_content,
              value |-> <<0>> \o sender.value \o inner.value]

\* the handshake request _authenticate builds
auth_message == _authenticate_auth(app_label, socket_name)

\* ------------------------------------------------------------ environment
\* what a raw socket call yields: data, or socket.timeout, or socket.error
Raw(t, data) == [t |-> t, data |-> data]
RawTimeout == Raw("timeout", <<>>)
RawError == Raw("error", <<>>)
\* a zero-length read: the peer has closed the connection
RawEmpty == Raw("data", <<>>)

\* a frame as the device encodes it: kind, sender, payload
DevFrame(kind, sender, payload) ==
    <<kind>> \o <<Len(sender) % Base, Len(sender) \div Base>> \o sender
             \o <<Len(payload) % Base, Len(payload) \div Base>> \o payload

\* the device's name, "TV"
DevName == <<84, 86>>
FrameOk == DevFrame(0, DevName, AUTH_OK)
\* the same payload under another kind and with no sender
FrameOkOther == DevFrame(2, <<>>, AUTH_OK)
FrameDenied == DevFrame(0, DevName, AUTH_ACCESS_DENIED)
FrameNeedConfirm == DevFrame(0, DevName, AUTH_NEED_CONFIRM)
FrameAuthTimeout == DevFrame(0, DevName, AUTH_TIMEOUT)
\* well-formed frames with another payload
FrameKeyOk == DevFrame(0, DevName, KEY_OK)
FrameOther == DevFrame(2, DevName, <<16, 0, 1, 0, 0, 0>>)
\* malformed frames: a trailing byte, a missing byte, no length bytes
FrameTrailing == FrameOk \o <<0>>
FrameMissing == SubSeq(FrameOk, 1, Len(FrameOk) - 1)
FrameShort == <<2>>
\* a well-formed frame of a kind that ResponseType does not name
FrameUnknown == DevFrame(255, DevName, KEY_OK)

WellFormedFrames ==
    {FrameOk, FrameOkOther, FrameDenied, FrameNeedConfirm, FrameAuthTimeout,
     FrameKeyOk, FrameOther, FrameUnknown}
MalformedFrames == {FrameTrailing, FrameMissing, FrameShort}
DeviceFrames == WellFormedFrames \cup MalformedFrames

\* ------------------------------------------------------------------ state
VARIABLES
    sock,     \* self._sock: NoSock (None) or the socket object
    pc,       \* where the caller's current call stands
    cur,      \* the call in progress
    i,        \* _authenticate: the loop index
    status,   \* _authenticate: the local variable status
    rx,       \* history: what each self.recv() of the handshake got
    tx,       \* history: the last write to a socket
    result,   \* history: how the last call ended
    calls,    \* number of calls made so far
    chan,     \* set_channel: its locals and what it has sent
    flt,      \* IterReceiver: self.filter
    got,      \* history: what each self.recv() of the current next() got,
              \* and the message it returned
    stopping, \* ThreadReceiver: self._stopping
    listeners,\* ThreadReceiver: self._listeners
    main,     \* the thread that owns a ThreadReceiver: what it has called
    loop,     \* ThreadReceiver.run: its locals
    heard,    \* history: what the loop of run has received and dispatched
    codec     \* a call of a function of the codec: its arguments and outcome

client_vars == <<sock, pc, cur, i, status, rx, tx, result, calls>>
receiver_vars == <<flt, got, stopping, listeners, main, loop, heard>>
vars == <<python, _logger, sock, pc, cur, i, status, rx, tx, result, calls,
          chan, flt, got, stopping, listeners, main, loop, heard, codec>>

NoSock == [state |-> "None", timeout |-> "None", authed |-> FALSE,
           eof |-> FALSE]
\* socket.socket(AF_INET, SOCK_STREAM); settimeout(self._auth_timeout)
NewSock == [state |-> "unconnected", timeout |-> "auth_timeout",
            authed |-> FALSE, eof |-> FALSE]

NoCall == [name |-> "none", data |-> <<>>, noSock |-> FALSE, wrote |-> 0,
           connected |-> FALSE, authenticated |-> FALSE]
NoTx == [kind |-> "none", n |-> 0, len |-> 0, authed |-> FALSE]
NoResult == [call |-> NoCall, kind |-> "none", value |-> 0, exc |-> NoExc,
             from |-> "none"]

NoChan == [channel |-> 0, digits |-> <<>>, pos |-> 0, keys |-> <<>>,
           delay |-> FALSE, sleeps |-> 0]
NoMain == [started |-> FALSE, stopped |-> FALSE, joined |-> FALSE,
           joining |-> FALSE]
NoGot == [raws |-> <<>>, msg |-> NoMessage]
\* run's locals: what its last recv got, msg, the position of its for loop
NoLoop == [raw |-> Raw("none", <<>>), msg |-> NoMessage, k |-> 0]
\* frames received and messages parsed so far, the number of pairs
\* registered when the last message was parsed, the callbacks invoked
NoHeard == [frames |-> 0, msgs |-> 0, regs |-> 0, calls |-> <<>>]

\* SmartTV.__init__
ClientInit ==
    /\ sock = NoSock
    /\ pc = "idle"
    /\ cur = NoCall
    /\ i = 0
    /\ status = "None"
    /\ rx = <<>>
    /\ tx = NoTx
    /\ result = NoResult
    /\ calls = 0
    /\ chan = NoChan

\* ThreadReceiver.__init__, and the histories of both receivers
ReceiverInit ==
    /\ got = NoGot
    /\ stopping = FALSE
    /\ listeners = <<>>
    /\ main = NoMain
    /\ loop = NoLoop
    /\ heard = NoHeard

\* no function of the codec has been called
NoCodec == [op |-> "none", arg |-> <<>>, other |-> <<>>, out |-> NoExc]

Init ==
    /\ python \in Pythons
    /\ _logger = FALSE
    /\ ClientInit
    /\ ReceiverInit
    /\ flt = "true"
    /\ codec = NoCodec

\* the call returns value
Return(value) ==
    /\ pc' = "idle"
    /\ result' = [call |-> cur', kind |-> "return", value |-> value,
                  exc |-> NoExc, from |-> "none"]

\* the call ends with exception exc, raised in function from
Raise(exc, from) ==
    /\ pc' = "idle"
    /\ result' = [call |-> cur', kind |-> "raise", value |-> 0,
                  exc |-> exc, from |-> from]

\* the caller starts a call
Call(name, data) ==
    /\ pc = "idle"
    /\ calls < MaxCalls
    /\ calls' = calls + 1
    /\ cur' = [name |-> name, data |-> data, noSock |-> sock = NoSock,
               wrote |-> 0, connected |-> FALSE, authenticated |-> FALSE]
    /\ rx' = <<>>
    /\ tx' = NoTx

\* ----------------------------------------------------------------- SmartTV
\* what the raw socket can yield to recv(2048)
RawRecvs(s) ==
    IF s.state = "refused" THEN {RawError, RawEmpty}
    ELSE IF s.state \notin {"connected", "pending"} THEN {RawError}
    ELSE IF s.eof THEN {RawEmpty}
    ELSE {RawTimeout, RawError, RawEmpty}
         \cup {Raw("data", f) : f \in DeviceFrames}

\* SmartTV.recv: the data, or the exception raised
recv(raw) ==
    IF raw.t = "timeout"
    THEN [exc |-> Exc("socket.timeout", "timed out"), data |-> <<>>]
    ELSE IF raw.t = "error"
    THEN [exc |-> Exc("socket.error", "error"), data |-> <<>>]
    ELSE IF Len(raw.data) = 0
    THEN [exc |-> Exc("socket.timeout", "Received 0 bytes -- disconnected?"),
          data |-> <<>>]
    ELSE [exc |-> NoExc, data |-> raw.data]

\* Message.parse of data as self._sock.recv returned it.  Under Python 3
\* recv returns bytes, whose items are integers: ord(message[0]) raises
\* TypeError for every frame that is not empty.  Under Python 2 recv
\* returns a str.
Message_parse_data(data) ==
    IF python = 3 /\ Len(data) > 0
    THEN [exc |-> Exc("TypeError",
                      "ord() expected string of length 1, but int found"),
          msg |-> NoMessage]
    ELSE Message_parse(data)

\* mutant: an AUTH_TIMEOUT payload is taken as "keep waiting"
parse_auth_response_timeout_waits(response) ==
    LET parsed == Message_parse_data(response)
    IN  IF parsed.exc # NoExc
        THEN [exc |-> parsed.exc, ret |-> "None", close |-> FALSE]
        ELSE IF parsed.msg.payload = AUTH_OK
        THEN [exc |-> NoExc, ret |-> "True", close |-> FALSE]
        ELSE IF parsed.msg.payload = AUTH_ACCESS_DENIED
        THEN [exc |-> NoExc, ret |-> "False", close |-> TRUE]
        ELSE IF parsed.msg.payload \in {AUTH_NEED_CONFIRM, AUTH_TIMEOUT}
        THEN [exc |-> NoExc, ret |-> "None", close |-> FALSE]
        ELSE [exc |-> ExcArg("ValueError", "unknown auth response",
                             parsed.msg),
              ret |-> "None", close |-> FALSE]

\* mutant: a payload that is not known is taken as "keep waiting"
parse_auth_response_unknown_waits(response) ==
    LET parsed == Message_parse_data(response)
    IN  IF parsed.exc # NoExc
        THEN [exc |-> parsed.exc, ret |-> "None", close |-> FALSE]
        ELSE IF parsed.msg.payload = AUTH_OK
        THEN [exc |-> NoExc, ret |-> "True", close |-> FALSE]
        ELSE IF parsed.msg.payload = AUTH_ACCESS_DENIED
        THEN [exc |-> NoExc, ret |-> "False", close |-> TRUE]
        ELSE IF parsed.msg.payload = AUTH_TIMEOUT
        THEN [exc |-> Exc("AuthenticationError", "timeout"),
              ret |-> "None", close |-> FALSE]
        ELSE [exc |-> NoExc, ret |-> "None", close |-> FALSE]

\* SmartTV._parse_auth_response: the status returned or the exception
\* raised, and whether the socket was closed
parse_auth_response(response) ==
    LET parsed == Message_parse_data(response)
    IN  IF parsed.exc # NoExc
        THEN [exc |-> parsed.exc, ret |-> "None", close |-> FALSE]
        ELSE IF parsed.msg.payload = AUTH_OK
        THEN [exc |-> NoExc, ret |-> "True", close |-> FALSE]
        ELSE IF parsed.msg.payload = AUTH_ACCESS_DENIED
        THEN [exc |-> NoExc, ret |-> "False", close |-> TRUE]
        ELSE IF parsed.msg.payload = AUTH_NEED_CONFIRM
        THEN [exc |-> NoExc, ret |-> "None", close |-> FALSE]
        ELSE IF parsed.msg.payload = AUTH_TIMEOUT
        THEN [exc |-> Exc("AuthenticationError", "timeout"),
              ret |-> "None", close |-> FALSE]
        ELSE [exc |-> ExcArg("ValueError", "unknown auth response",
                             parsed.msg),
              ret |-> "None", close |-> FALSE]

\* mutant: the timeout of recv is not caught
caught_timeout_never(exc) == FALSE

\* _authenticate: except socket.timeout catches the exception of recv
caught_timeout(exc) == exc.type = "socket.timeout"

\* mutant: if status is not False
status_true_unless_false(st) == st # "False"

\* _authenticate: if status
status_true(st) == st = "True"

\* mutant: range(self._auth_tries - 1)
more_tries_one_less(n) == n + 1 < auth_tries - 1

\* mutant: range(self._auth_tries + 1)
more_tries_one_more(n) == n + 1 < auth_tries + 1

\* _authenticate: for i in range(self._auth_tries) has another turn after i
more_tries(n) == n + 1 < auth_tries

\* mutant: send never connects
needs_connect_never(s) == FALSE

\* send: if self._sock is None
needs_connect(s) == s = NoSock

\* where a call goes on when its self.connect() has returned
after_connect(name) ==
    IF name = "run" THEN "run_while"
    ELSE IF name = "next" THEN "next_recv"
    ELSE "sock_send"

\* connect() is called by the caller
connect ==
    /\ Call("connect", <<>>)
    /\ pc' = "_connect"
    /\ result' = NoResult
    /\ UNCHANGED <<sock, i, status>>

\* send_key(key): build the message, then send: connect if self._sock is
\* None
send_key(key) ==
    LET msg == key_message(key)
    IN  /\ Call("send_key", msg.value)
        /\ IF msg.exc # NoExc
           THEN Raise(msg.exc, "send_key")
           ELSE /\ pc' = IF needs_connect(sock)
                         THEN "_connect" ELSE "sock_send"
                /\ result' = NoResult
        /\ UNCHANGED <<sock, i, status>>

\* send_text(text)
send_text(text) ==
    LET msg == text_message(text)
    IN  /\ Call("send_text", msg.value)
        /\ IF msg.exc # NoExc
           THEN Raise(msg.exc, "send_text")
           ELSE /\ pc' = IF needs_connect(sock)
                         THEN "_connect" ELSE "sock_send"
                /\ result' = NoResult
        /\ UNCHANGED <<sock, i, status>>

\* SmartTV._connect: self._sock = socket.socket(...); settimeout: a new
\* socket replaces self._sock
new_socket ==
    /\ pc = "_connect"
    /\ sock' = NewSock
    /\ pc' = "sock_connect"
    /\ UNCHANGED <<cur, i, status, rx, tx, result, calls>>

\* SmartTV._connect: self._sock.connect(self._sockargs) returns or raises;
\* the socket stays in self._sock when it raises: after a timeout the
\* connection is pending and may still complete, after another error the
\* socket is not connected
connect_socket(ok) ==
    /\ pc = "sock_connect"
    /\ IF ok = "ok"
       THEN /\ sock' = [sock EXCEPT !.state = "connected"]
            /\ cur' = [cur EXCEPT !.connected = TRUE]
            /\ pc' = "_authenticate"
            /\ UNCHANGED result
       ELSE /\ sock' = [sock EXCEPT !.state = IF ok = "socket.timeout"
                                               THEN "pending" ELSE "refused"]
            /\ cur' = cur
            /\ Raise(Exc(ok, "connect"), "_connect")
    /\ UNCHANGED <<i, status, rx, tx, calls>>

\* what the raw socket's send can yield for a buffer of len bytes
RawSends(s, len) ==
    IF s.state \notin {"connected", "pending"}
    THEN {[exc |-> "socket.error", n |-> 0]}
    ELSE {[exc |-> "", n |-> len - k] : k \in {j \in 0..MaxShort : j < len}}
         \cup {[exc |-> e, n |-> 0] : e \in {"socket.error", "socket.timeout"}}

\* SmartTV._authenticate up to the loop: the request is sent with one
\* self._sock.send; what it returns is not looked at
authenticate_send ==
    /\ pc = "_authenticate"
    /\ UNCHANGED <<sock, cur, calls>>
    /\ IF auth_message.exc # NoExc
       THEN /\ Raise(auth_message.exc, "_authenticate")
            /\ UNCHANGED <<tx, i, status, rx>>
       ELSE \E n \in RawSends(sock, Len(auth_message.value)) :
            IF n.exc # ""
            THEN /\ Raise(Exc(n.exc, "send"), "_authenticate")
                 /\ UNCHANGED <<tx, i, status, rx>>
            ELSE /\ tx' = [kind |-> "auth", n |-> n.n,
                           len |-> Len(auth_message.value),
                           authed |-> sock.authed]
                 /\ i' = 0
                 /\ status' = "None"
                 /\ rx' = <<>>
                 /\ pc' = "auth_loop"
                 /\ UNCHANGED result

\* one turn of the loop of SmartTV._authenticate, with the for-else;
\* i and status are locals and end with the call
authenticate_attempt(raw) ==
    LET r == recv(raw)
        p == parse_auth_response(r.data)
        timedOut == caught_timeout(r.exc)
        status2 == IF timedOut THEN status ELSE p.ret
        sock1 == IF raw = RawEmpty THEN [sock EXCEPT !.eof = TRUE] ELSE sock
        sock2 == IF ~timedOut /\ r.exc = NoExc /\ p.close
                 THEN [sock1 EXCEPT !.state = "closed"] ELSE sock1
    IN  /\ pc = "auth_loop"
        /\ rx' = Append(rx, raw)
        /\ UNCHANGED <<tx, calls>>
        /\ IF ~timedOut /\ r.exc # NoExc
           THEN /\ sock' = sock1
                /\ cur' = cur
                /\ i' = 0
                /\ status' = "None"
                /\ Raise(r.exc, "recv")
           ELSE IF ~timedOut /\ p.exc # NoExc
           THEN /\ sock' = sock2
                /\ cur' = cur
                /\ i' = 0
                /\ status' = "None"
                /\ Raise(p.exc, "_parse_auth_response")
           ELSE IF status_true(status2)
           THEN /\ sock' = [sock2 EXCEPT !.timeout = "recv_timeout",
                                         !.authed = TRUE]
                /\ cur' = [cur EXCEPT !.authenticated = TRUE]
                /\ i' = 0
                /\ status' = "None"
                /\ IF cur.name = "connect"
                   THEN Return(0)
                   ELSE pc' = after_connect(cur.name) /\ UNCHANGED result
           ELSE IF more_tries(i)
           THEN /\ sock' = sock2
                /\ status' = status2
                /\ i' = i + 1
                /\ UNCHANGED <<pc, cur, result>>
           ELSE /\ sock' = sock2
                /\ cur' = cur
                /\ i' = 0
                /\ status' = "None"
                /\ Raise(Exc("AuthenticationError",
                             "access denied by remote device"),
                         "_authenticate")

\* _log(level, ...) of the except clauses of send, whose level is the
\* function logging.warning: Logger.log refuses it when a logger is set
log_warning(logger) ==
    IF logger THEN Exc("TypeError", "level must be an integer") ELSE NoExc

\* set_logging(active), between two calls of the caller
set_logging(active) ==
    /\ pc = "idle"
    /\ _logger' = active
    /\ UNCHANGED <<python, chan, codec>>
    /\ UNCHANGED client_vars
    /\ UNCHANGED receiver_vars

\* SmartTV.send from the try on: return self._sock.send(data); the except
\* clauses log and re-raise
sock_send(n) ==
    /\ pc = "sock_send"
    /\ IF n.exc # "" /\ log_warning(_logger) # NoExc
       THEN /\ cur' = cur
            /\ Raise(log_warning(_logger), "_log")
            /\ UNCHANGED tx
       ELSE IF n.exc # ""
       THEN /\ cur' = cur
            /\ Raise(Exc(n.exc, "send"), "send")
            /\ UNCHANGED tx
       ELSE /\ tx' = [kind |-> "command", n |-> n.n, len |-> Len(cur.data),
                      authed |-> sock.authed]
            /\ cur' = [cur EXCEPT !.wrote = n.n]
            /\ IF cur.name = "set_channel"
               THEN pc' = "channel_sent" /\ UNCHANGED result
               ELSE Return(n.n)
    /\ UNCHANGED <<sock, i, status, rx, calls>>

\* SmartTV.disconnect: self._sock.close(); self._sock = None
disconnect ==
    /\ Call("disconnect", <<>>)
    /\ IF sock = NoSock
       THEN /\ Raise(Exc("AttributeError",
                         "'NoneType' object has no attribute 'close'"),
                     "disconnect")
            /\ UNCHANGED sock
       ELSE /\ sock' = NoSock
            /\ Return(0)
    /\ UNCHANGED <<i, status>>

\* the decimal digits of n >= 0, as ASCII codes
RECURSIVE decimal(_)
decimal(n) ==
    IF n < 10 THEN <<48 + n>> ELSE decimal(n \div 10) \o <<48 + (n % 10)>>

\* s padded with "0" on the left to width characters
zero_pad(s, width) ==
    IF Len(s) >= width THEN s
    ELSE [k \in 1..(width - Len(s)) |-> 48] \o s

\* mutant: "%d" % channel
format_04d_unpadded(channel) ==
    IF channel >= 0 THEN decimal(channel) ELSE <<45>> \o decimal(-channel)

\* "%04d" % channel: the sign is part of the width
format_04d(channel) ==
    IF channel >= 0 THEN zero_pad(decimal(channel), 4)
    ELSE <<45>> \o zero_pad(decimal(-channel), 3)

\* map_: the keys are the characters "0".."9"
map_has(digit) == digit \in 48..57

\* map_[digit]: "KEY_%d" % x under str(x)
map_(digit) == <<75, 69, 89, 95>> \o <<digit>>

\* the channels the caller asks for
Channels == {0, 7, 120, 9999, 10000, -5}

\* set_channel(channel, delay) is called; delay is None (FALSE) or a time
set_channel(channel, delay) ==
    /\ Call("set_channel", <<>>)
    /\ chan' = [channel |-> channel, digits |-> format_04d(channel),
                pos |-> 1, keys |-> <<>>, delay |-> delay, sleeps |-> 0]
    /\ pc' = "channel_for"
    /\ result' = NoResult
    /\ UNCHANGED <<sock, i, status>>

\* set_channel: for digit in "%04d" % channel: self.send_key(map_[digit])
\* up to the socket calls of send
channel_for ==
    /\ pc = "channel_for"
    /\ UNCHANGED <<sock, i, status, rx, tx, calls, chan>>
    /\ IF chan.pos > Len(chan.digits)
       THEN /\ cur' = cur
            /\ Return(0)
       ELSE IF ~map_has(chan.digits[chan.pos])
       THEN /\ cur' = cur
            /\ Raise(Exc("KeyError", "digit"), "set_channel")
       ELSE IF key_message(map_(chan.digits[chan.pos])).exc # NoExc
       THEN /\ cur' = cur
            /\ Raise(key_message(map_(chan.digits[chan.pos])).exc, "send_key")
       ELSE /\ cur' = [cur EXCEPT
                          !.data =
                              key_message(map_(chan.digits[chan.pos])).value]
            /\ pc' = IF needs_connect(sock) THEN "_connect" ELSE "sock_send"
            /\ UNCHANGED result

\* set_channel: send_key has returned; if delay is not None: time.sleep
channel_sent ==
    /\ pc = "channel_sent"
    /\ chan' = [chan EXCEPT
                   !.keys = Append(@, map_(chan.digits[chan.pos])),
                   !.sleeps = IF chan.delay THEN @ + 1 ELSE @,
                   !.pos = @ + 1]
    /\ pc' = "channel_for"
    /\ UNCHANGED <<sock, cur, i, status, rx, tx, result, calls>>

Next ==
    \/ connect
       /\ UNCHANGED <<module_vars, chan, codec>> /\ UNCHANGED receiver_vars
    \/ (\E key \in Keys : send_key(key))
       /\ UNCHANGED <<module_vars, chan, codec>> /\ UNCHANGED receiver_vars
    \/ (\E text \in Texts : send_text(text))
       /\ UNCHANGED <<module_vars, chan, codec>> /\ UNCHANGED receiver_vars
    \/ new_socket
       /\ UNCHANGED <<module_vars, chan, codec>> /\ UNCHANGED receiver_vars
    \/ (\E ok \in {"ok", "socket.error", "socket.timeout"} :
            connect_socket(ok))
       /\ UNCHANGED <<module_vars, chan, codec>> /\ UNCHANGED receiver_vars
    \/ authenticate_send
       /\ UNCHANGED <<module_vars, chan, codec>> /\ UNCHANGED receiver_vars
    \/ (\E raw \in RawRecvs(sock) : authenticate_attempt(raw))
       /\ UNCHANGED <<module_vars, chan, codec>> /\ UNCHANGED receiver_vars
    \/ (\E n \in RawSends(sock, Len(cur.data)) : sock_send(n))
       /\ UNCHANGED <<module_vars, chan, codec>> /\ UNCHANGED receiver_vars
    \/ disconnect
       /\ UNCHANGED <<module_vars, chan, codec>> /\ UNCHANGED receiver_vars
    \/ (\E active \in BOOLEAN : set_logging(active))

Spec == Init /\ [][Next]_vars

\* a caller that dials channels
NextChannel ==
    \/ (\E channel \in Channels : \E delay \in BOOLEAN :
            set_channel(channel, delay))
       /\ UNCHANGED <<module_vars, codec>> /\ UNCHANGED receiver_vars
    \/ channel_for
       /\ UNCHANGED <<module_vars, codec>> /\ UNCHANGED receiver_vars
    \/ channel_sent
       /\ UNCHANGED <<module_vars, codec>> /\ UNCHANGED receiver_vars
    \/ new_socket
       /\ UNCHANGED <<module_vars, chan, codec>> /\ UNCHANGED receiver_vars
    \/ (\E ok \in {"ok", "socket.error", "socket.timeout"} :
            connect_socket(ok))
       /\ UNCHANGED <<module_vars, chan, codec>> /\ UNCHANGED receiver_vars
    \/ authenticate_send
       /\ UNCHANGED <<module_vars, chan, codec>> /\ UNCHANGED receiver_vars
    \/ (\E raw \in RawRecvs(sock) : authenticate_attempt(raw))
       /\ UNCHANGED <<module_vars, chan, codec>> /\ UNCHANGED receiver_vars
    \/ (\E n \in RawSends(sock, Len(cur.data)) : sock_send(n))
       /\ UNCHANGED <<module_vars, chan, codec>> /\ UNCHANGED receiver_vars
    \/ (\E active \in BOOLEAN : set_logging(active))

SpecChannel == Init /\ [][NextChannel]_vars

\* ------------------------------------------------------------ IterReceiver
\* the filters an IterReceiver is built with: the default, and one that
\* keeps the confirmations of a key
Filters == {"true", "key"}

\* ResponseType.TYPES_KEY_ACCEPTED
TYPES_KEY_ACCEPTED == {0, 1}

\* self._connected: set by __init__ and by nothing else
_connected == FALSE

\* self.filter(msg)
filter(f, msg) ==
    IF f = "true" THEN TRUE ELSE msg.type \in TYPES_KEY_ACCEPTED

\* __next__: except socket.timeout: continue
except_continue(exc) == exc.type = "socket.timeout"

\* next(self) is called: if not self._connected: self.connect()
__next__ ==
    /\ Call("next", <<>>)
    /\ got' = NoGot
    /\ pc' = IF ~_connected THEN "_connect" ELSE "next_recv"
    /\ result' = NoResult
    /\ UNCHANGED <<sock, i, status>>

\* one turn of the loop of __next__
next_recv(raw) ==
    LET r == recv(raw)
        parsed == Message_parse_data(r.data)
    IN  /\ pc = "next_recv"
        /\ Len(got.raws) < MaxPulls
        /\ rx' = <<>>
        /\ sock' = IF raw = RawEmpty THEN [sock EXCEPT !.eof = TRUE] ELSE sock
        /\ UNCHANGED <<cur, i, status, tx, calls>>
        /\ IF except_continue(r.exc)
           THEN /\ got' = [got EXCEPT !.raws = Append(@, raw)]
                /\ UNCHANGED <<pc, result>>
           ELSE IF r.exc # NoExc
           THEN /\ got' = [got EXCEPT !.raws = Append(@, raw)]
                /\ Raise(r.exc, "recv")
           ELSE IF parsed.exc # NoExc
           THEN /\ got' = [got EXCEPT !.raws = Append(@, raw)]
                /\ Raise(parsed.exc, "Message.parse")
           ELSE IF filter(flt, parsed.msg)
           THEN /\ got' = [raws |-> Append(got.raws, raw), msg |-> parsed.msg]
                /\ Return(0)
           ELSE /\ got' = [got EXCEPT !.raws = Append(@, raw)]
                /\ UNCHANGED <<pc, result>>

\* IterReceiver.__init__ with one of the filters.  The class is defined
\* under Python 3 only: listener.py imports typing, annotates the
\* parameters of __init__ and calls super() without arguments.
InitPull ==
    /\ python = 3
    /\ _logger = FALSE
    /\ ClientInit
    /\ ReceiverInit
    /\ flt \in Filters
    /\ codec = NoCodec

\* next(self) up to the end of its self.connect()
next_connect ==
    \/ __next__
       /\ UNCHANGED <<module_vars, chan, codec, flt, stopping, listeners,
                       main, loop, heard>>
    \/ new_socket
       /\ UNCHANGED <<module_vars, chan, codec>> /\ UNCHANGED receiver_vars
    \/ (\E ok \in {"ok", "socket.error", "socket.timeout"} :
            connect_socket(ok))
       /\ UNCHANGED <<module_vars, chan, codec>> /\ UNCHANGED receiver_vars
    \/ authenticate_send
       /\ UNCHANGED <<module_vars, chan, codec>> /\ UNCHANGED receiver_vars

\* next(self) from the first receive of the handshake on
next_receive ==
    \/ (\E raw \in RawRecvs(sock) : authenticate_attempt(raw))
       /\ UNCHANGED <<module_vars, chan, codec>> /\ UNCHANGED receiver_vars
    \/ (\E raw \in RawRecvs(sock) : next_recv(raw))
       /\ UNCHANGED <<module_vars, chan, codec, flt, stopping, listeners,
                       main, loop, heard>>

\* disconnect(), which the receiver has from SmartTV, between two calls
\* of next
pull_disconnect ==
    disconnect
    /\ UNCHANGED <<module_vars, chan, codec>> /\ UNCHANGED receiver_vars

\* send_key(key) and send_text(text), which the receiver has from
\* SmartTV: the caller sends the command whose confirmation it then pulls
pull_send ==
    \/ (\E key \in Keys : send_key(key))
       /\ UNCHANGED <<module_vars, chan, codec>> /\ UNCHANGED receiver_vars
    \/ (\E text \in Texts : send_text(text))
       /\ UNCHANGED <<module_vars, chan, codec>> /\ UNCHANGED receiver_vars

\* a caller that pulls messages: every statement of __next__
NextIterReceiver ==
    next_connect \/ next_receive \/ pull_disconnect \/ pull_send

SpecIterReceiver == InitPull /\ [][NextIterReceiver]_vars

\* _authenticate raises before it sends its request (sstv_base64 under
\* Python 3), so no next() gets as far as a receive
PullNeverReceives ==
    pc \notin {"auth_loop", "next_recv"} /\ tx = NoTx /\ got = NoGot

\* the steps a caller that pulls messages takes: by PullNeverReceives,
\* none of next_receive
NextPull == next_connect \/ pull_disconnect \/ pull_send

SpecPull == InitPull /\ [][NextPull]_vars

\* ---------------------------------------------------------- ThreadReceiver
\* the (matcher, listener) pairs a caller registers: matchers are the
\* predicates "any message" and "confirmation of a key"
Pairs ==
    {[matcher |-> "true", listener |-> "A"],
     [matcher |-> "key", listener |-> "B"]}

\* the frames the device sends while the worker listens
PushedFrames ==
    {FrameKeyOk, FrameOther, FrameUnknown,
     FrameTrailing, FrameMissing, FrameShort}

\* what the raw socket can yield to the recv of run when frames frames
\* have come already
LoopRecvs(s, frames) ==
    {raw \in RawRecvs(s) :
        (raw.t = "data" /\ raw.data # <<>>) =>
            (frames < MaxFrames /\ raw.data \in PushedFrames)}

\* matcher(msg)
matcher(m, msg) ==
    IF m = "true" THEN TRUE ELSE msg.type \in TYPES_KEY_ACCEPTED

\* for (matcher, listener) in self._listeners: the list is exhausted
for_done(k, ls) == k > Len(ls)

\* run: except ValueError
except_ValueError(exc) == exc.type = "ValueError"

\* the worker thread has ended, by return or by exception
WorkerEnded == cur.name = "run" /\ pc = "idle"

\* add_listener(matcher, listener), from the owning thread
add_listener(pair) ==
    /\ ~main.joining
    /\ Len(listeners) < MaxListeners
    /\ listeners' = Append(listeners, pair)
    /\ UNCHANGED <<sock, pc, cur, i, status, rx, tx, result, calls,
                   stopping, main, loop, heard>>

\* Thread.start(): the worker thread begins run()
start ==
    /\ ~main.started
    /\ Call("run", <<>>)
    /\ main' = [main EXCEPT !.started = TRUE]
    /\ pc' = "run_start"
    /\ result' = NoResult
    /\ UNCHANGED <<sock, i, status, stopping, listeners, loop, heard>>

\* stop(), from the owning thread
stop ==
    /\ main.started
    /\ ~main.stopped
    /\ ~main.joining
    /\ stopping' = TRUE
    /\ main' = [main EXCEPT !.stopped = TRUE]
    /\ UNCHANGED <<sock, pc, cur, i, status, rx, tx, result, calls,
                   listeners, loop, heard>>

\* join(): self._stopping = True, then Thread.join waits
join ==
    /\ main.started
    /\ ~main.joining
    /\ ~main.joined
    /\ stopping' = TRUE
    /\ main' = [main EXCEPT !.joining = TRUE]
    /\ UNCHANGED <<sock, pc, cur, i, status, rx, tx, result, calls,
                   listeners, loop, heard>>

\* Thread.join returns when the worker thread has ended
join_return ==
    /\ main.joining
    /\ WorkerEnded
    /\ main' = [main EXCEPT !.joining = FALSE, !.joined = TRUE]
    /\ UNCHANGED <<sock, pc, cur, i, status, rx, tx, result, calls,
                   stopping, listeners, loop, heard>>

\* run: self._stopping = False, then self.connect()
run_start ==
    /\ pc = "run_start"
    /\ stopping' = FALSE
    /\ pc' = "_connect"
    /\ UNCHANGED <<sock, cur, i, status, rx, tx, result, calls,
                   listeners, main, loop, heard>>

\* run: while not self._stopping
run_while ==
    /\ pc = "run_while"
    /\ pc' = IF ~stopping THEN "run_recv" ELSE "run_disconnect"
    /\ UNCHANGED <<sock, cur, i, status, rx, tx, result, calls,
                   stopping, listeners, main, loop, heard>>

\* run: data = self.recv() and msg = Message.parse(data), with their
\* except clauses
run_recv(raw) ==
    LET r == recv(raw)
        parsed == Message_parse_data(r.data)
    IN  /\ pc = "run_recv"
        /\ rx' = <<>>
        /\ tx' = NoTx
        /\ sock' = IF raw = RawEmpty THEN [sock EXCEPT !.eof = TRUE] ELSE sock
        /\ UNCHANGED <<cur, i, status, calls, stopping, listeners, main>>
        /\ IF except_continue(r.exc)
           THEN /\ loop' = [loop EXCEPT !.raw = raw]
                /\ pc' = "run_while"
                /\ UNCHANGED <<heard, result>>
           ELSE IF r.exc # NoExc
           THEN /\ loop' = [loop EXCEPT !.raw = raw]
                /\ UNCHANGED heard
                /\ Raise(r.exc, "recv")
           ELSE IF except_ValueError(parsed.exc)
           THEN /\ loop' = [loop EXCEPT !.raw = raw]
                /\ heard' = [heard EXCEPT !.frames = @ + 1]
                /\ pc' = "run_while"
                /\ UNCHANGED result
           ELSE IF parsed.exc # NoExc
           THEN /\ loop' = [loop EXCEPT !.raw = raw]
                /\ heard' = [heard EXCEPT !.frames = @ + 1]
                /\ Raise(parsed.exc, "Message.parse")
           ELSE /\ loop' = [raw |-> raw, msg |-> parsed.msg, k |-> 1]
                /\ heard' = [heard EXCEPT !.frames = @ + 1,
                                          !.msgs = @ + 1,
                                          !.regs = Len(listeners)]
                /\ pc' = "run_for"
                /\ UNCHANGED result

\* run: one turn of the for loop over self._listeners, or its end
run_for ==
    /\ pc = "run_for"
    /\ UNCHANGED <<sock, cur, i, status, rx, tx, result, calls,
                   stopping, listeners, main>>
    /\ IF for_done(loop.k, listeners)
       THEN /\ pc' = "run_while"
            /\ UNCHANGED <<loop, heard>>
       ELSE /\ loop' = [loop EXCEPT !.k = @ + 1]
            /\ heard' =
                   IF matcher(listeners[loop.k].matcher, loop.msg)
                   THEN [heard EXCEPT !.calls = Append(@,
                            [n |-> heard.msgs, k |-> loop.k,
                             listener |-> listeners[loop.k].listener,
                             msg |-> loop.msg])]
                   ELSE heard
            /\ UNCHANGED pc

\* run: self.disconnect()
run_disconnect ==
    /\ pc = "run_disconnect"
    /\ sock' = NoSock
    /\ pc' = "run_reset"
    /\ UNCHANGED <<cur, i, status, rx, tx, result, calls,
                   stopping, listeners, main, loop, heard>>

\* run: self._stopping = False, and the thread ends
run_reset ==
    /\ pc = "run_reset"
    /\ stopping' = FALSE
    /\ cur' = cur
    /\ Return(0)
    /\ UNCHANGED <<sock, i, status, rx, tx, calls,
                   listeners, main, loop, heard>>

\* the steps of the worker thread
Worker ==
    \/ run_start /\ UNCHANGED <<module_vars, chan, codec, flt, got>>
    \/ new_socket
       /\ UNCHANGED <<module_vars, chan, codec>> /\ UNCHANGED receiver_vars
    \/ (\E ok \in {"ok", "socket.error", "socket.timeout"} :
            connect_socket(ok))
       /\ UNCHANGED <<module_vars, chan, codec>> /\ UNCHANGED receiver_vars
    \/ authenticate_send
       /\ UNCHANGED <<module_vars, chan, codec>> /\ UNCHANGED receiver_vars
    \/ (\E raw \in RawRecvs(sock) : authenticate_attempt(raw))
       /\ UNCHANGED <<module_vars, chan, codec>> /\ UNCHANGED receiver_vars
    \/ run_while /\ UNCHANGED <<module_vars, chan, codec, flt, got>>
    \/ (\E raw \in LoopRecvs(sock, heard.frames) : run_recv(raw))
       /\ UNCHANGED <<module_vars, chan, codec, flt, got>>
    \/ run_for /\ UNCHANGED <<module_vars, chan, codec, flt, got>>
    \/ run_disconnect /\ UNCHANGED <<module_vars, chan, codec, flt, got>>
    \/ run_reset /\ UNCHANGED <<module_vars, chan, codec, flt, got>>

\* the steps of the thread that owns the receiver
Owner ==
    \/ (\E pair \in Pairs : add_listener(pair))
       /\ UNCHANGED <<module_vars, chan, codec, flt, got>>
    \/ start /\ UNCHANGED <<module_vars, chan, codec, flt, got>>
    \/ stop /\ UNCHANGED <<module_vars, chan, codec, flt, got>>
    \/ join /\ UNCHANGED <<module_vars, chan, codec, flt, got>>
    \/ join_return /\ UNCHANGED <<module_vars, chan, codec, flt, got>>

\* ThreadReceiver.__init__.  The class is defined under Python 3 only:
\* listener.py imports typing and annotates the parameters of __init__.
InitPush ==
    /\ python = 3
    /\ _logger = FALSE
    /\ ClientInit
    /\ ReceiverInit
    /\ flt = "true"
    /\ codec = NoCodec

\* the receiver and its owner: every statement of run
NextThreadReceiver == Worker \/ Owner

SpecThreadReceiver == InitPush /\ [][NextThreadReceiver]_vars

\* _authenticate raises before it sends its request (sstv_base64 under
\* Python 3), so self.connect() of run never returns and the worker
\* never reaches its loop
PushNeverListens ==
    /\ pc \notin {"auth_loop", "run_while", "run_recv", "run_for",
                   "run_disconnect", "run_reset"}
    /\ tx = NoTx
    /\ loop = NoLoop
    /\ heard = NoHeard

\* the steps the worker thread takes: by PushNeverListens, those of run
\* up to the end of its self.connect()
run_connect ==
    \/ run_start /\ UNCHANGED <<module_vars, chan, codec, flt, got>>
    \/ new_socket
       /\ UNCHANGED <<module_vars, chan, codec>> /\ UNCHANGED receiver_vars
    \/ (\E ok \in {"ok", "socket.error", "socket.timeout"} :
            connect_socket(ok))
       /\ UNCHANGED <<module_vars, chan, codec>> /\ UNCHANGED receiver_vars
    \/ authenticate_send
       /\ UNCHANGED <<module_vars, chan, codec>> /\ UNCHANGED receiver_vars

NextPush == run_connect \/ Owner

SpecPush == InitPush /\ [][NextPush]_vars

\* ------------------------------------------------------- calls of the codec
\* bytes the short strings are made of
ByteSample == {0, 1, 2, 255}

\* the byte strings of ByteSample of length at most n
Strings(n) == UNION {[1..k -> ByteSample] : k \in 0..n}

\* a string of n bytes
Zeros(n) == [k \in 1..n |-> 0]

\* strings around the lengths where a length byte carries over
LongStrings ==
    {Zeros(n) : n \in {Base - 1, Base, Base + 1,
                       MaxLength - 1, MaxLength, MaxLength + 1}}

\* what follows an encoded string in a buffer
Suffixes == {<<>>, <<0>>, <<1, 0, 7>>}

\* buffers handed to Message.parse: frames of every kind, the same with a
\* trailing byte, and every proper prefix of a frame
ParseBuffers ==
    {DevFrame(kind, sender, payload) \o t :
        kind \in 0..(Base - 1), sender \in {<<>>, DevName},
        payload \in {<<>>, KEY_OK}, t \in {<<>>, <<0>>}}
    \cup {SubSeq(FrameOther, 1, k) : k \in 0..(Len(FrameOther) - 1)}

\* Message values
Messages ==
    {Message(type_, payload, sender) :
        type_ \in {0, 2}, payload \in {<<>>, KEY_OK},
        sender \in {<<>>, DevName}}

\* what a Message is compared with
Others ==
    {Other("Message", m, <<>>) : m \in Messages}
    \cup {Other("str", NoMessage, f) : f \in {FrameKeyOk, FrameOther, <<120>>}}
    \cup {Other("other", NoMessage, <<>>)}

\* sstv_string(string) is called
call_sstv_string(string) ==
    /\ codec.op = "none"
    /\ codec' = [op |-> "sstv_string", arg |-> string, other |-> <<>>,
                 out |-> sstv_string(string)]

\* parse_sstv_string(data) is called
call_parse_sstv_string(data) ==
    /\ codec.op = "none"
    /\ codec' = [op |-> "parse_sstv_string", arg |-> data, other |-> <<>>,
                 out |-> parse_sstv_string(data)]

\* parse_sstv_string(sstv_string(string) + suffix) is called
call_round_trip(string, suffix) ==
    LET encoded == sstv_string(string)
    IN  /\ codec.op = "none"
        /\ codec' = [op |-> "round_trip", arg |-> string, other |-> suffix,
                     out |-> IF encoded.exc # NoExc
                             THEN [exc |-> encoded.exc, value |-> <<>>,
                                   rest |-> <<>>]
                             ELSE parse_sstv_string(encoded.value \o suffix)]

\* Message.parse(message) is called
call_Message_parse(message) ==
    /\ codec.op = "none"
    /\ codec' = [op |-> "Message.parse", arg |-> message, other |-> <<>>,
                 out |-> Message_parse(message)]

\* self == other and self != other are evaluated
call_compare(self, other) ==
    /\ codec.op = "none"
    /\ codec' = [op |-> "compare", arg |-> self, other |-> other,
                 out |-> [eq |-> Message_equals(self, other),
                          ne |-> Message___ne__(self, other)]]

\* application labels a client is built with: "", "tv", "\x00", and
\* "\xff", which is not ASCII
Labels == {<<>>, app_label, <<0>>, <<255>>}

\* labels whose sender string is around the longest sstv_string encodes
LongLabels ==
    {Zeros(n - Len(IAPP_SAMSUNG)) :
        n \in {MaxLength - 1, MaxLength, MaxLength + 1}}

\* mode bytes: "\x00" of send_key, "\x01" of send_text, and two others
Modes == {0, 1, 2, 255}

\* the payloads send_key and send_text hand to _build_message
CommandPayloads ==
    {<<0, 0, 0>> \o sstv_base64(key).value :
        key \in {k \in Keys : sstv_base64(k).exc = NoExc}}
    \cup {<<1, 0>> \o sstv_base64(text).value :
              text \in {t \in Texts : sstv_base64(t).exc = NoExc}}

\* what Message.parse makes of a frame that was built
parse_built(built) ==
    IF built.exc # NoExc THEN [exc |-> NoExc, msg |-> NoMessage]
    ELSE Message_parse(built.value)

\* Message.parse(tv._build_message(mode, payload)) is called on a client
\* whose app_label is label
call_build_message(label, mode, payload) ==
    LET built == _build_message(label, mode, payload)
    IN  /\ codec.op = "none"
        /\ codec' = [op |-> "_build_message",
                     arg |-> [app_label |-> label, mode |-> mode,
                              payload |-> payload],
                     other |-> <<>>,
                     out |-> [exc |-> built.exc, frame |-> built.value,
                              parsed |-> parse_built(built)]]

\* Message.parse of the request _authenticate sends is called on a client
\* whose app_label is label, on a socket whose local address is name
call_authenticate_auth(label, name) ==
    LET built == _authenticate_auth(label, name)
    IN  /\ codec.op = "none"
        /\ codec' = [op |-> "_authenticate",
                     arg |-> [app_label |-> label, mode |-> 0,
                              payload |-> built.auth_content],
                     other |-> name,
                     out |-> [exc |-> built.exc, frame |-> built.value,
                              parsed |-> parse_built(built)]]

\* a caller of the codec, which makes one call
NextCodec ==
    \/ codec.op = "none"
       /\ (\E label \in Labels : \E mode \in Modes :
               \E payload \in Strings(MaxLen) \cup CommandPayloads :
                   call_build_message(label, mode, payload))
       /\ UNCHANGED module_vars /\ UNCHANGED client_vars
       /\ UNCHANGED chan /\ UNCHANGED receiver_vars
    \/ codec.op = "none"
       /\ (\E label \in LongLabels :
               \E payload \in {<<>>, Zeros(MaxLength - 1)} :
               call_build_message(label, 0, payload))
       /\ UNCHANGED module_vars /\ UNCHANGED client_vars
       /\ UNCHANGED chan /\ UNCHANGED receiver_vars
    \/ codec.op = "none"
       /\ (\E payload \in LongStrings :
               call_build_message(app_label, 1, payload))
       /\ UNCHANGED module_vars /\ UNCHANGED client_vars
       /\ UNCHANGED chan /\ UNCHANGED receiver_vars
    \/ codec.op = "none"
       /\ (\E label \in Labels : \E name \in {socket_name, <<>>, <<255>>} :
               call_authenticate_auth(label, name))
       /\ UNCHANGED module_vars /\ UNCHANGED client_vars
       /\ UNCHANGED chan /\ UNCHANGED receiver_vars
    \/ codec.op = "none"
       /\ (\E string \in Strings(MaxLen) \cup LongStrings :
               call_sstv_string(string))
       /\ UNCHANGED module_vars /\ UNCHANGED client_vars
       /\ UNCHANGED chan /\ UNCHANGED receiver_vars
    \/ codec.op = "none"
       /\ (\E data \in Strings(MaxLen + 1) : call_parse_sstv_string(data))
       /\ UNCHANGED module_vars /\ UNCHANGED client_vars
       /\ UNCHANGED chan /\ UNCHANGED receiver_vars
    \/ codec.op = "none"
       /\ (\E string \in Strings(MaxLen) \cup LongStrings :
               \E suffix \in Suffixes : call_round_trip(string, suffix))
       /\ UNCHANGED module_vars /\ UNCHANGED client_vars
       /\ UNCHANGED chan /\ UNCHANGED receiver_vars
    \/ codec.op = "none"
       /\ (\E message \in ParseBuffers : call_Message_parse(message))
       /\ UNCHANGED module_vars /\ UNCHANGED client_vars
       /\ UNCHANGED chan /\ UNCHANGED receiver_vars
    \/ codec.op = "none"
       /\ (\E self \in Messages : \E other \in Others :
               call_compare(self, other))
       /\ UNCHANGED module_vars /\ UNCHANGED client_vars
       /\ UNCHANGED chan /\ UNCHANGED receiver_vars

SpecCodec == Init /\ [][NextCodec]_vars

\* ----------------------------------------------------------------- claims
\* the handshake of the current call has ended (it returned or raised)
AuthFinished == cur.connected /\ pc \in {"idle", "sock_send"}

\* the call has ended
Ended == pc = "idle" /\ result.kind # "none"

RxOk == Raw("data", FrameOk)
\* a receive that yields a well-formed frame whose payload is AUTH_OK
IsOk(raw) == raw \in {RxOk, Raw("data", FrameOkOther)}
RxDenied == Raw("data", FrameDenied)
RxNeedConfirm == Raw("data", FrameNeedConfirm)
RxAuthTimeout == Raw("data", FrameAuthTimeout)

\* a receive after which the handshake is neither accepted nor refused
Inconclusive(raw) == raw = RawTimeout \/ raw = RxNeedConfirm

AccessDenied == Exc("AuthenticationError", "access denied by remote device")

\* C1: the handshake succeeds exactly when one of the first auth_tries
\* receives yields an AUTH_OK frame and every receive before it was a
\* timeout or an AUTH_NEED_CONFIRM frame; on success the socket timeout is
\* recv_timeout, on every failure it is still auth_timeout.
C1_SuccessIffOk ==
    AuthFinished =>
        /\ cur.authenticated <=>
               \E k \in 1..Len(rx) :
                   /\ k <= 3
                   /\ IsOk(rx[k])
                   /\ \A j \in 1..(k - 1) : Inconclusive(rx[j])
        /\ cur.authenticated => sock.timeout = "recv_timeout"
        /\ ~cur.authenticated => sock.timeout = "auth_timeout"

C1_Witness ==
    /\ AuthFinished
    /\ cur.authenticated
    /\ rx = <<RawTimeout, RxNeedConfirm, RxOk>>
    /\ sock.timeout = "recv_timeout"

\* C2: an AUTH_ACCESS_DENIED frame closes the socket and ends the handshake
\* at once with an AuthenticationError: no receive follows it.
C2_DeniedIsTerminal ==
    \A k \in 1..Len(rx) :
        rx[k] = RxDenied =>
            /\ k = Len(rx)
            /\ sock.state = "closed"
            /\ Ended
            /\ result.kind = "raise"
            /\ result.exc.type = "AuthenticationError"

\* C3: a command frame is only ever written to a socket on which the
\* handshake has completed with AUTH_OK.
C3_CommandsOnlyAfterAuthOk ==
    tx.kind = "command" => tx.authed

\* C4: k AUTH_NEED_CONFIRM frames (k < auth_tries) and then AUTH_OK make the
\* handshake succeed; AUTH_NEED_CONFIRM on every one of the auth_tries
\* receives ends it with "access denied by remote device", and not before.
C4_NeedConfirmThenOk ==
    AuthFinished /\ Len(rx) > 0 =>
        /\ (/\ IsOk(rx[Len(rx)])
            /\ Len(rx) <= 3
            /\ \A j \in 1..(Len(rx) - 1) : rx[j] = RxNeedConfirm)
           => cur.authenticated
        /\ (\A j \in 1..Len(rx) : rx[j] = RxNeedConfirm)
           => /\ Len(rx) = 3
              /\ Ended
              /\ result.kind = "raise"
              /\ result.exc = AccessDenied

C4_Witness ==
    /\ AuthFinished
    /\ rx = <<RxNeedConfirm, RxNeedConfirm, Raw("data", FrameOkOther)>>
    /\ cur.authenticated

\* C5: a receive timeout never ends the loop early: timeout, timeout,
\* AUTH_OK succeeds, and when every receive times out or is an
\* AUTH_NEED_CONFIRM frame all auth_tries receives are made before the
\* handshake fails with "access denied by remote device".
C5_TimeoutDoesNotAbort ==
    /\ (cur.connected /\ Len(rx) > 0 /\ Len(rx) < 3
                       /\ rx[Len(rx)] = RawTimeout)
       => pc = "auth_loop"
    /\ AuthFinished /\ Len(rx) > 0 =>
        /\ rx = <<RawTimeout, RawTimeout, RxOk>> => cur.authenticated
        /\ (\A j \in 1..Len(rx) : Inconclusive(rx[j]))
           => /\ Len(rx) = 3
              /\ Ended
              /\ result.kind = "raise"
              /\ result.exc = AccessDenied

C5_Witness ==
    /\ AuthFinished
    /\ rx = <<RawTimeout, RawTimeout, RxOk>>
    /\ cur.authenticated

\* C6: an AUTH_TIMEOUT frame ends the handshake on that receive with
\* AuthenticationError("timeout"): no receive follows and the socket
\* timeout stays auth_timeout.
C6_AuthTimeoutIsTerminal ==
    \A k \in 1..Len(rx) :
        rx[k] = RxAuthTimeout =>
            /\ k = Len(rx)
            /\ Ended
            /\ result.kind = "raise"
            /\ result.exc = Exc("AuthenticationError", "timeout")
            /\ result.from = "_parse_auth_response"
            /\ ~cur.authenticated
            /\ sock.timeout = "auth_timeout"

C6_Witness ==
    /\ Ended
    /\ rx = <<RxNeedConfirm, RxAuthTimeout>>
    /\ result.exc = Exc("AuthenticationError", "timeout")

\* the well-formed frames of the device whose payload is none of the four
\* handshake payloads, as (kind, sender, payload)
UnknownResponses ==
    {<<0, DevName, KEY_OK>>, <<2, DevName, <<16, 0, 1, 0, 0, 0>>>>,
     <<255, DevName, KEY_OK>>}

\* C7: a well-formed frame with any other payload ends the handshake on
\* that receive with the unknown-auth-response error, which carries the
\* parsed message; no receive follows.
C7_UnknownIsTerminal ==
    \A k \in 1..Len(rx) : \A u \in UnknownResponses :
        rx[k] = Raw("data", DevFrame(u[1], u[2], u[3])) =>
            /\ k = Len(rx)
            /\ Ended
            /\ result.kind = "raise"
            /\ result.exc = ExcArg("ValueError", "unknown auth response",
                                   Message(u[1], u[3], u[2]))
            /\ ~cur.authenticated

C7_Witness ==
    /\ Ended
    /\ rx = <<RawTimeout, Raw("data", FrameOther)>>
    /\ result.exc.type = "ValueError"
    /\ result.exc.arg.type = 2

\* C8: send_key and send_text on a client without a socket connect and
\* authenticate before the command is written; when either fails (or the
\* command cannot be built, so that send is not entered), the failure is
\* what the call raises and no command byte is written.
C8_LazyConnect ==
    (cur.name \in {"send_key", "send_text"} /\ cur.noSock) =>
        /\ tx.kind = "command" =>
               cur.connected /\ cur.authenticated /\ tx.authed
        /\ (Ended /\ ~(cur.connected /\ cur.authenticated)) =>
               /\ result.kind = "raise"
               /\ result.from \in {"_connect", "_authenticate", "recv",
                                   "_parse_auth_response",
                                   "send_key", "send_text"}
               /\ cur.wrote = 0
               /\ tx.kind # "command"

C8_Witness ==
    /\ Ended
    /\ cur.name = "send_key"
    /\ cur.noSock
    /\ cur.connected
    /\ result.exc = AccessDenied
    /\ cur.wrote = 0

\* C9: a send that returns has written the whole frame.
C9_SendWritesAll ==
    (Ended /\ result.kind = "return"
           /\ cur.name \in {"send_key", "send_text"})
        => tx.kind = "command" /\ tx.n = tx.len

\* C10: a zero-length read is a connection-closed failure, not a timeout:
\* the handshake loop does not go on to another receive after it, and the
\* call ends with an error that is not the read-timeout error.
C10_ClosedIsNotTimeout ==
    \A k \in 1..Len(rx) :
        rx[k] = RawEmpty =>
            /\ k = Len(rx)
            /\ Ended
            /\ result.kind = "raise"
            /\ result.from = "recv"
            /\ result.exc.type # "socket.timeout"


\* ------------------------------------------------------------ set_channel
KeyOf(d) == <<75, 69, 89, 95, 48 + d>>

\* KEY_d1 .. KEY_d4 for the four decimal places of n
ExpectedKeys(n) ==
    <<KeyOf(n \div 1000), KeyOf((n \div 100) % 10),
      KeyOf((n \div 10) % 10), KeyOf(n % 10)>>

IsPrefix(s, t) ==
    Len(s) <= Len(t) /\ \A k \in 1..Len(s) : s[k] = t[k]

\* C19: set_channel(n), n in 0..9999, sends KEY_d1, KEY_d2, KEY_d3, KEY_d4
\* for n zero-padded to four digits, in that order and nothing else: the
\* keys sent so far are always the first of these four, the message handed
\* to the socket is the key command of the next one, and when the call
\* returns all four have been sent.
C19_FourKeys ==
    (cur.name = "set_channel" /\ chan.channel \in 0..9999) =>
        /\ IsPrefix(chan.keys, ExpectedKeys(chan.channel))
        /\ (pc \in {"sock_send", "channel_sent"} =>
                /\ Len(chan.keys) < 4
                /\ cur.data = key_message(
                       ExpectedKeys(chan.channel)[Len(chan.keys) + 1]).value)
        /\ (Ended /\ result.kind = "return" =>
                chan.keys = ExpectedKeys(chan.channel))

\* set_channel(7) has returned after KEY_0, KEY_0, KEY_0, KEY_7
C19_Witness ==
    /\ cur.name = "set_channel"
    /\ chan.channel = 7
    /\ Ended
    /\ result.kind = "return"
    /\ chan.keys = <<KeyOf(0), KeyOf(0), KeyOf(0), KeyOf(7)>>

\* C20: set_channel(n) with n > 9999 or n < 0 sends no key command and
\* does not return normally.
C20_InvalidChannelSendsNothing ==
    (cur.name = "set_channel" /\ chan.channel \notin 0..9999) =>
        /\ chan.keys = <<>>
        /\ ~(Ended /\ result.kind = "return")

\* -------------------------------------------------------------- pull mode
\* a receive that yields a frame which parses
Parses(raw) ==
    raw.t = "data" /\ Len(raw.data) > 0 /\ Message_parse(raw.data).exc = NoExc

\* the predicate the receiver was built with holds of msg
Satisfies(msg) == flt = "key" => msg.type \in {0, 1}

\* a receive that yields a message the predicate accepts
Accepted(raw) == Parses(raw) /\ Satisfies(Message_parse(raw.data).msg)

\* a receive that recv reports as a read timeout, or a message the
\* predicate rejects
Skipped(raw) ==
    \/ recv(raw).exc.type = "socket.timeout"
    \/ Parses(raw) /\ ~Satisfies(Message_parse(raw.data).msg)

\* C17: next() returns the first message, in receive order, that the
\* predicate accepts: while it runs everything received so far was a read
\* timeout or a rejected message, and when it returns the last receive is
\* the only accepted one and the returned message is its parse and
\* satisfies the predicate.
C17_FirstAccepted ==
    cur.name = "next" =>
        /\ (pc = "next_recv" =>
                \A k \in 1..Len(got.raws) : Skipped(got.raws[k]))
        /\ (Ended /\ result.kind = "return" =>
                /\ Len(got.raws) > 0
                /\ Accepted(got.raws[Len(got.raws)])
                /\ got.msg = Message_parse(got.raws[Len(got.raws)].data).msg
                /\ Satisfies(got.msg)
                /\ \A k \in 1..(Len(got.raws) - 1) : Skipped(got.raws[k]))
        /\ (\A k \in 1..Len(got.raws) : Accepted(got.raws[k]) =>
                k = Len(got.raws) /\ Ended /\ result.kind = "return")

\* C18: a socket.error raised by recv inside next() ends the call with
\* that exception; next() does not go on receiving after it.
C18_ErrorPropagates ==
    (cur.name = "next"
     /\ \E k \in 1..Len(got.raws) : got.raws[k] = RawError) =>
        /\ got.raws[Len(got.raws)] = RawError
        /\ \A k \in 1..(Len(got.raws) - 1) : got.raws[k] # RawError
        /\ Ended
        /\ result.kind = "raise"
        /\ result.exc = Exc("socket.error", "error")
        /\ result.from = "recv"

\* -------------------------------------------------------------- push mode
\* the worker is between the start of run and the end of its loop
InLoop ==
    cur.name = "run"
    /\ pc \in {"_connect", "sock_connect", "_authenticate", "auth_loop",
               "run_while", "run_recv", "run_for"}

\* C11: once the device has closed the connection (a zero-length read in
\* the loop of run) the worker eventually ends.
C11_PeerCloseEndsWorker ==
    (cur.name = "run" /\ loop.raw = RawEmpty) ~> WorkerEnded

\* C12: a stop request is never lost: from stop() on a started listener
\* until the worker thread has ended, at whatever point of run the worker
\* stands, the stop signal stays set for the worker to observe.
C12_StopNotLost ==
    (main.stopped /\ ~WorkerEnded) => stopping

\* C13: join never waits on a worker that has not been told to stop:
\* while join() waits, a worker that is before or in its loop has its
\* stop signal set.
C13_JoinImpliesStop ==
    (main.joining /\ (pc = "run_start" \/ InLoop)) => stopping

\* the pair accepts msg
PairAccepts(pair, msg) == pair.matcher = "key" => msg.type \in {0, 1}

\* the callbacks invoked for the message parsed last
LastCalls == SelectSeq(heard.calls, LAMBDA c : c.n = heard.msgs)

\* C14: for the message parsed last, the callbacks invoked are those of
\* the pairs passed so far whose matcher accepts it, once each and in
\* registration order, each with that message; a pair whose matcher
\* rejects it is not invoked; and when its dispatch is over every pair
\* registered when it arrived has been passed.
C14_FanOut ==
    (cur.name = "run" /\ heard.msgs > 0) =>
        /\ \A a \in 1..Len(LastCalls) :
               /\ LastCalls[a].k < loop.k
               /\ LastCalls[a].k <= Len(listeners)
               /\ PairAccepts(listeners[LastCalls[a].k], loop.msg)
               /\ LastCalls[a].listener = listeners[LastCalls[a].k].listener
               /\ LastCalls[a].msg = loop.msg
        /\ \A a, b \in 1..Len(LastCalls) :
               a < b => LastCalls[a].k < LastCalls[b].k
        /\ \A k \in 1..(loop.k - 1) :
               PairAccepts(listeners[k], loop.msg) =>
                   \E a \in 1..Len(LastCalls) : LastCalls[a].k = k
        /\ (pc # "run_for" => loop.k > heard.regs)

\* C15: callbacks are invoked in the order the messages were received,
\* and when the worker begins a receive every callback of the message
\* before it has been invoked.
C15_ReceiveOrder ==
    cur.name = "run" =>
        /\ \A a, b \in 1..Len(heard.calls) :
               a < b => heard.calls[a].n <= heard.calls[b].n
        /\ \A a \in 1..Len(heard.calls) : heard.calls[a].n <= heard.msgs
        /\ (pc \in {"run_recv", "run_while"} /\ heard.msgs > 0 =>
                \A k \in 1..heard.regs :
                    PairAccepts(listeners[k], loop.msg) =>
                        \E a \in 1..Len(heard.calls) :
                            /\ heard.calls[a].n = heard.msgs
                            /\ heard.calls[a].k = k)

\* C16: a frame that does not parse does not end the worker.
C16_BadFrameKeepsWorker ==
    (cur.name = "run" /\ loop.raw.t = "data"
     /\ loop.raw.data \in MalformedFrames) =>
        ~(WorkerEnded /\ result.kind = "raise"
          /\ result.from = "Message.parse")

\* ------------------------------------------------------------- disconnect
\* C21: disconnect() returns and leaves the client without a socket,
\* whether or not it had one.
C21_DisconnectIdempotent ==
    (cur.name = "disconnect" /\ Ended) =>
        (result.kind = "return" /\ sock = NoSock)

\* -------------------------------------------------------------- handshake
\* C28: in one call the handshake request is sent once, when nothing has
\* been sent or received in this call yet, and a receive of the handshake
\* comes after the request and is at most the third.
C28_OneRequestThreeReceives ==
    [][/\ (tx' # tx /\ tx'.kind = "auth") =>
              (pc = "_authenticate" /\ tx.kind = "none" /\ rx = <<>>)
       /\ (rx' # rx /\ rx' # <<>>) =>
              (pc = "auth_loop" /\ tx.kind = "auth" /\ Len(rx') <= 3)
       /\ (pc = "auth_loop" => pc' # "_authenticate")]_vars

\* a handshake that used all three receives
C28_Witness ==
    /\ cur.connected
    /\ Ended
    /\ tx.kind = "auth"
    /\ Len(rx) = 3

\* C29: a later next() uses the socket the receiver has open: next()
\* does not open a new connection while the receiver holds a connected
\* socket.
C29_PullConnectsOnce ==
    (cur.name = "next" /\ pc = "_connect") => sock.state # "connected"

\* C30: once the stop signal is set while the worker is in its loop it
\* stays set, and the next test of the loop condition ends the loop: the
\* worker begins no receive after that test.
C30_StopSeenAtNextTest ==
    [][(cur.name = "run" /\ stopping
        /\ pc \in {"run_while", "run_recv", "run_for"}) =>
           /\ stopping'
           /\ (pc = "run_while" /\ pc' # pc => pc' = "run_disconnect")]_vars

\* ------------------------------------------------------------------ codec
\* C22: for a byte string b of at most 65535 bytes and any suffix s,
\* parse_sstv_string(sstv_string(b) + s) returns (b, s).
C22_RoundTrip ==
    (codec.op = "round_trip" /\ Len(codec.arg) <= 65535) =>
        /\ codec.out.exc = NoExc
        /\ codec.out.value = codec.arg
        /\ codec.out.rest = codec.other

\* a string of 256 bytes, whose length fills the second length byte,
\* followed by three more bytes, came back whole
C22_Witness ==
    /\ codec.op = "round_trip"
    /\ Len(codec.arg) = 256
    /\ codec.other = <<1, 0, 7>>
    /\ codec.out.exc = NoExc
    /\ Len(codec.out.value) = 256
    /\ codec.out.rest = <<1, 0, 7>>

\* C23: sstv_string fails exactly on the inputs longer than 65535 bytes,
\* then with its error for a string that is too long, and both length bytes
\* of a successful encoding are in 0..255.
C23_OversizeRejected ==
    codec.op = "sstv_string" =>
        /\ (Len(codec.arg) > 65535 <=> codec.out.exc # NoExc)
        /\ (Len(codec.arg) > 65535 =>
                codec.out.exc = Exc("ValueError", "String too long"))
        /\ (codec.out.exc = NoExc =>
                /\ codec.out.value[1] \in 0..255
                /\ codec.out.value[2] \in 0..255)

\* the first two bytes of data, read as a little-endian length
Declared(data) == data[1] + data[2] * 256

\* data is shorter than its declared length and the two length bytes
Truncated(data) == Len(data) < 2 \/ Len(data) < Declared(data) + 2

\* C24: parse_sstv_string fails with the error for missing bytes on every
\* buffer shorter than its declared length + 2, buffers of 0 or 1 bytes
\* included, and with no other error.
C24_TruncatedIsDataError ==
    codec.op = "parse_sstv_string" =>
        /\ (Truncated(codec.arg) => codec.out.exc.type = "ValueError")
        /\ (codec.out.exc # NoExc => codec.out.exc.type = "ValueError")
        /\ (codec.out.exc = NoExc =>
                Len(codec.out.value) = Declared(codec.arg))

\* buf is a kind byte and two length-prefixed strings and nothing else
WellFormed(buf) ==
    /\ Len(buf) >= 5
    /\ Len(buf) >= 5 + Declared(SubSeq(buf, 2, 3))
    /\ Len(buf) = 5 + Declared(SubSeq(buf, 2, 3))
                    + Declared(SubSeq(buf, 4 + Declared(SubSeq(buf, 2, 3)),
                                           5 + Declared(SubSeq(buf, 2, 3))))

\* C25: Message.parse accepts exactly the well-formed buffers, returns
\* their kind, sender and payload, and rejects every other buffer as
\* malformed.
C25_ParseExact ==
    codec.op = "Message.parse" =>
        /\ (WellFormed(codec.arg) <=> codec.out.exc = NoExc)
        /\ (codec.out.exc = NoExc =>
                codec.arg = DevFrame(codec.out.msg.type,
                                     codec.out.msg.sender,
                                     codec.out.msg.payload))
        /\ (codec.out.exc # NoExc => codec.out.exc.type = "ValueError")

\* C26: two Message values are equal exactly when their kind and payload
\* are equal, whatever their senders, and != is the negation of ==.
C26_EqualityIgnoresSender ==
    (codec.op = "compare" /\ codec.other.tag = "Message") =>
        /\ codec.out.eq.exc = NoExc
        /\ codec.out.ne.exc = NoExc
        /\ (codec.out.eq.ret = "True" <=>
                /\ codec.arg.type = codec.other.msg.type
                /\ codec.arg.payload = codec.other.msg.payload)
        /\ codec.out.eq.ret \in {"True", "False"}
        /\ codec.out.ne.ret \in {"True", "False"}
        /\ (codec.out.ne.ret = "True" <=> codec.out.eq.ret = "False")

\* two messages that differ in their sender only are equal
C26_Witness ==
    /\ codec.op = "compare"
    /\ codec.other.tag = "Message"
    /\ codec.arg.sender # codec.other.msg.sender
    /\ codec.arg.type = codec.other.msg.type
    /\ codec.arg.payload = codec.other.msg.payload
    /\ codec.out.eq.ret = "True"
    /\ codec.out.ne.ret = "False"

\* C27: a well-formed frame of any kind that the worker receives is
\* parsed, the message carries the kind byte of the frame, and it goes to
\* the pairs whose matcher accepts any message like every other message.
C27_AnyKindAccepted ==
    (cur.name = "run" /\ loop.raw.t = "data" /\ WellFormed(loop.raw.data)) =>
        /\ ~(WorkerEnded /\ result.kind = "raise")
        /\ loop.msg = Message(loop.raw.data[1],
                              Message_parse(loop.raw.data).msg.payload,
                              Message_parse(loop.raw.data).msg.sender)
        /\ loop.msg.type = loop.raw.data[1]
        /\ (pc \in {"run_while", "run_recv"} =>
                \A k \in 1..heard.regs :
                    listeners[k].matcher = "true" =>
                        \E a \in 1..Len(heard.calls) :
                            /\ heard.calls[a].n = heard.msgs
                            /\ heard.calls[a].k = k
                            /\ heard.calls[a].msg.type = loop.raw.data[1])

\* ------------------------------------------------- set_channel with delay
\* C31: set_channel with a delay pauses only between consecutive key
\* commands: once the fourth key of a valid channel has been sent the call
\* has paused exactly 3 times, and it returns having paused 3 times (no
\* pause follows the last key).
C31_PausesOnlyBetweenKeys ==
    (cur.name = "set_channel" /\ chan.delay /\ chan.channel \in 0..9999) =>
        /\ (Len(chan.keys) = 4 => chan.sleeps = 3)
        /\ (Ended /\ result.kind = "return" => chan.sleeps = 3)


\* ---------------------------------------------------- worker termination
\* C32: whenever the worker thread has ended after its socket had
\* connected, on whatever path, the client has been disconnected: it holds
\* no socket.
C32_WorkerExitDisconnects ==
    (WorkerEnded /\ cur.connected) => sock = NoSock


\* ------------------------------------------------------------ built frames
\* the strings the frame encodes are within the length limit
WithinLimit ==
    /\ Len(codec.arg.app_label \o IAPP_SAMSUNG) <= 65535
    /\ Len(codec.arg.payload) <= 65535

\* C33: every frame built by _build_message, and the handshake frame built
\* by _authenticate, is a well-formed message: for an app_label and an inner
\* payload within the length limit the command frame is built, and
\* Message.parse of every frame that is built yields kind = mode byte,
\* sender = app_label + ".iapp.samsung" and payload = the inner payload,
\* with no trailing bytes (no parser error).
C33_BuiltFrameParses ==
    /\ (codec.op = "_build_message" /\ WithinLimit) => codec.out.exc = NoExc
    /\ (/\ codec.op \in {"_build_message", "_authenticate"}
        /\ codec.out.exc = NoExc) =>
            /\ codec.out.parsed.exc = NoExc
            /\ codec.out.parsed.msg =
                   Message(codec.arg.mode, codec.arg.payload,
                           codec.arg.app_label \o IAPP_SAMSUNG)
            /\ Len(codec.out.frame) =
                   1 + 2 + Len(codec.arg.app_label \o IAPP_SAMSUNG)
                     + 2 + Len(codec.arg.payload)

\* the text command of send_text("hi!") built for the label "tv" parsed
\* back to kind 1, sender "tv.iapp.samsung" and its inner payload
C33_Witness ==
    /\ codec.op = "_build_message"
    /\ codec.arg.app_label = app_label
    /\ codec.arg.mode = 1
    /\ codec.arg.payload = <<1, 0>> \o sstv_base64(<<104, 105, 33>>).value
    /\ codec.out.frame = text_message(<<104, 105, 33>>).value
    /\ codec.out.parsed.exc = NoExc
    /\ codec.out.parsed.msg.type = 1
    /\ codec.out.parsed.msg.sender = app_label \o IAPP_SAMSUNG
    /\ codec.out.parsed.msg.payload = codec.arg.payload

=============================================================================
